---- MODULE Spec2Model ----
(***************************************************************************)
(* Model of huuto.py: the transport layer (get/post/put/delete), the       *)
(* response validator (validate_response), the token lifecycle             *)
(* (authenticate, update_token, token, get_token_data, config) and the     *)
(* config file they share.                                                 *)
(***************************************************************************)
EXTENDS Integers, Naturals, Sequences, FiniteSets, TLC

\* ------------------------------------------------------------------ bounds
MaxTime == 2        \* the clock runs over 0..MaxTime
MaxLife == 1        \* the server issues tokens living 0..MaxLife ticks

\* --------------------------------------------------------------- processes
Procs == {1, 2}     \* processes that share the config file
Single == {1}       \* the single local process spec.md section 5 assumes

\* ------------------------------------------------------------- time stamps
\* A time stamp string carries a local time and a UTC offset; parser.parse
\* turns it into an aware datetime, which compares by its UTC instant.
Offsets == {0, 1}
Stamps == [local : 0..MaxTime, off : Offsets]
parse(s) == s.local - s.off
ServerStamp(t) == [local |-> t + 1, off |-> 1]

\* ---------------------------------------------------------- the config file
Credentials == [username |-> "user", password |-> "secret"]
Tokens == {"tA", "tB"}
InitialTokenRecord(e) ==
    [userid |-> <<"7", "7", "7">>, token |-> "t0",
     start_time |-> [local |-> 0, off |-> 0], expires |-> e]
\* a file is the set of its sections: each is <<>> (absent) or <<contents>>
EmptyFile == [main |-> <<>>, token |-> <<>>]
HasSection(f, s) == f[s] # <<>>

\* ------------------------------------------------------------- the server
StatusCodes == {200, 201, 204, 400, 401, 403, 404, 500, 501}
NotJson == [kind |-> "notjson"]
EndpointBodies == {NotJson, [kind |-> "json"]}
\* the links.user value of the authentication response, as characters
Digits == {"0", "1", "2", "3", "4", "5", "6", "7", "8", "9"}
UserLinks ==
    { <<"/", "1", ".", "1", "/", "u", "/", "1", "2", "3">>,
      <<"/", "u", "/", "4", "5">>,
      <<"/", "u", "/", "1", "2", "3", "4", "5", "6", "7", "8", "9">> }
AuthBodies(t) ==
    {NotJson, [kind |-> "nokeys"]} \cup
    { [kind |-> "auth", id |-> k, startTime |-> ServerStamp(t),
       expires |-> ServerStamp(t + l), user |-> u] :
         k \in Tokens, l \in 0..MaxLife, u \in UserLinks }
AuthStatuses == {200, 201, 400, 403, 500}
AuthResponses(t) ==
    { [status |-> s, body |-> b] : s \in {200, 201}, b \in AuthBodies(t) } \cup
    { [status |-> s, body |-> b] : s \in AuthStatuses \ {200, 201},
                                   b \in {NotJson, [kind |-> "nokeys"]} }
EndpointResponses == [status : StatusCodes, body : EndpointBodies]

\* --------------------------------------------------------- validate_response
\* variant: the 501 branch is missing
validate_response_no501(status, accepted_status_codes) ==
    IF status = 400 THEN "ApiBadRequestError"
    ELSE IF status = 401 THEN "ApiUnauthorizedError"
    ELSE IF status = 403 THEN "ApiForbiddenError"
    ELSE IF status = 404 THEN "ApiNotFoundError"
    ELSE IF status \notin accepted_status_codes THEN "ApiError"
    ELSE "ok"

\* variant: the 400 and 401 branches raise each other's exception
validate_response_swap400(status, accepted_status_codes) ==
    IF status = 400 THEN "ApiUnauthorizedError"
    ELSE IF status = 401 THEN "ApiBadRequestError"
    ELSE IF status = 403 THEN "ApiForbiddenError"
    ELSE IF status = 404 THEN "ApiNotFoundError"
    ELSE IF status = 501 THEN "ApiNotImplementedError"
    ELSE IF status \notin accepted_status_codes THEN "ApiError"
    ELSE "ok"

\* variant: the final `not in accepted_status_codes` test is missing
validate_response_no_generic(status, accepted_status_codes) ==
    IF status = 400 THEN "ApiBadRequestError"
    ELSE IF status = 401 THEN "ApiUnauthorizedError"
    ELSE IF status = 403 THEN "ApiForbiddenError"
    ELSE IF status = 404 THEN "ApiNotFoundError"
    ELSE IF status = 501 THEN "ApiNotImplementedError"
    ELSE "ok"

validate_response(status, accepted_status_codes) ==
    IF status = 400 THEN "ApiBadRequestError"
    ELSE IF status = 401 THEN "ApiUnauthorizedError"
    ELSE IF status = 403 THEN "ApiForbiddenError"
    ELSE IF status = 404 THEN "ApiNotFoundError"
    ELSE IF status = 501 THEN "ApiNotImplementedError"
    ELSE IF status \notin accepted_status_codes THEN "ApiError"
    ELSE "ok"

\* `if not accepted_status_codes: accepted_status_codes = [200]`
AcceptedOrDefault(accepted_status_codes) ==
    IF accepted_status_codes = {} THEN {200} ELSE accepted_status_codes

\* json.loads(resp.content.decode('utf-8'))
json_loads(body) == IF body.kind = "notjson" THEN "JSONDecodeError" ELSE "ok"

\* variant: the body is decoded before the status is validated
ParseThenValidate(resp, accepted) ==
    IF json_loads(resp.body) # "ok"
      THEN [result |-> json_loads(resp.body), parsed |-> TRUE]
      ELSE [result |-> validate_response(resp.status, accepted), parsed |-> TRUE]

\* what get/post/put do with a response: [result, parsed]
ValidateThenParse(resp, accepted) ==
    LET v == validate_response(resp.status, accepted) IN
    IF v # "ok" THEN [result |-> v, parsed |-> FALSE]
    ELSE [result |-> json_loads(resp.body), parsed |-> TRUE]

\* variant: delete decodes the body as get, post and put do
ValidateOnly_parsing(resp, accepted) == ValidateThenParse(resp, accepted)

\* what delete does with a response: no parsing at all
ValidateOnly(resp, accepted) ==
    [result |-> validate_response(resp.status, accepted), parsed |-> FALSE]

TransportOutcome(method, resp, accepted) ==
    IF method = "delete" THEN ValidateOnly(resp, accepted)
    ELSE ValidateThenParse(resp, accepted)

\* ------------------------------------------- re.search('/([0-9]{3,8})', link)
RECURSIVE DigitRun(_, _)
DigitRun(s, i) ==
    IF i > Len(s) THEN 0
    ELSE IF s[i] \in Digits THEN 1 + DigitRun(s, i + 1) ELSE 0
MatchesAt(s, i) == s[i] = "/" /\ DigitRun(s, i + 1) >= 3
Min(a, b) == IF a < b THEN a ELSE b
\* <<>> when there is no match, else <<group 1>>
re_search(s) ==
    LET hits == { i \in 1..Len(s) : MatchesAt(s, i) } IN
    IF hits = {} THEN <<>>
    ELSE LET i == CHOOSE j \in hits : \A k \in hits : j <= k
         IN << SubSeq(s, i + 1, i + Min(DigitRun(s, i + 1), 8)) >>

\* variant: start_time and expires are stored under each other's key
TokenRecord_swapped(id, start_time, expires, userid) ==
    [userid |-> userid, token |-> id, start_time |-> expires, expires |-> start_time]

\* the record update_token puts under cfg['token']
TokenRecord(id, start_time, expires, userid) ==
    [userid |-> userid, token |-> id, start_time |-> start_time, expires |-> expires]

\* variant: a token is refreshed two ticks before it expires
Expired_margin(token_expires, t) == token_expires - 2 < t

\* `if token_expires < now`
Expired(token_expires, t) == token_expires < t


\* ------------------------------------------------------------ Python values
\* An argument value: None, an int, a float (in hundredths), a str or a list
\* of str. One record shape for all of them.
PyNone == [t |-> "None", n |-> 0, s |-> "", l |-> <<>>]
PyInt(k) == [t |-> "int", n |-> k, s |-> "", l |-> <<>>]
PyFloat(c) == [t |-> "float", n |-> c, s |-> "", l |-> <<>>]
PyStr(x) == [t |-> "str", n |-> 0, s |-> x, l |-> <<>>]
PyList(x) == [t |-> "list", n |-> 0, s |-> "", l |-> x]
PyBool(b) == [t |-> "bool", n |-> IF b THEN 1 ELSE 0, s |-> "", l |-> <<>>]

\* bool(v), the test of `if v` and `v and ...`
truthy(v) ==
    CASE v.t = "None" -> FALSE
      [] v.t \in {"int", "float", "bool"} -> v.n # 0
      [] v.t = "str" -> v.s # ""
      [] OTHER -> v.l # <<>>

\* the strings float() can read, with their value in hundredths
NumericStrings == {"0", "1", "16.50"}
ParseFloat(x) == CASE x = "0" -> 0 [] x = "1" -> 100 [] OTHER -> 1650

\* float(v): "ok", or the exception it raises
float_error(v) ==
    CASE v.t \in {"int", "float"} -> "ok"
      [] v.t = "str" -> IF v.s \in NumericStrings THEN "ok" ELSE "ValueError"
      [] OTHER -> "TypeError"
float(v) ==
    CASE v.t = "int" -> PyFloat(v.n * 100)
      [] v.t = "float" -> v
      [] OTHER -> PyFloat(ParseFloat(v.s))

\* `x = float(x) if x else None`
float_if_error(v) == IF truthy(v) THEN float_error(v) ELSE "ok"
float_if(v) == IF truthy(v) /\ float_error(v) = "ok" THEN float(v) ELSE PyNone

\* v == k for an int literal k
NumEq(v, k) == (v.t = "int" /\ v.n = k) \/ (v.t = "float" /\ v.n = k * 100)
\* `v not in [0, 1]`
NotIn01(v) == ~(NumEq(v, 0) \/ NumEq(v, 1))
\* `v not in range(0, 100)`
NotInRange100(v) == ~(\E k \in 0..99 : NumEq(v, k))
\* `v not in [...]` for a list of str literals
NotInStrings(v, S) == ~(v.t = "str" /\ v.s \in S)

\* is_type(var_name, variable, object_type): TRUE, or TypeError is raised
is_type(v, object_type) == v.t = "None" \/ v.t = object_type

\* time.strptime(v, '%Y-%m-%d %H:%M:%S'): the strings that match the format
TimeStrings == {"2016-11-20 19:26:00", "2016-12-04 18:55:20"}
strptime_error(v) ==
    IF v.t # "str" THEN "TypeError"
    ELSE IF v.s \in TimeStrings THEN "ok" ELSE "ValueError"

\* the first check of a list of checks that fires, or Passed
Passed == [out |-> "pass", at |-> "none"]
Check(cond, out, at) == [fire |-> cond, out |-> out, at |-> at]
FirstFired(checks) ==
    LET fired == { i \in 1..Len(checks) : checks[i].fire } IN
    IF fired = {} THEN Passed
    ELSE LET i == CHOOSE j \in fired : \A k \in fired : j <= k
         IN [out |-> checks[i].out, at |-> checks[i].at]

\* ------------------------------------------------------------- create_item
CreateItemParams ==
    {"buy_now_price", "category_id", "closing_time", "condition",
     "delivery_methods", "delivery_terms", "description",
     "identification_required", "is_location_abroad", "list_time",
     "marginal_tax", "minimum_feedback", "minimum_increase", "open_days",
     "original_id", "payment_methods", "payment_terms", "postal_code",
     "quantity", "republish", "sale_method", "starting_price", "status",
     "title", "vat", "offers_allowed"}

\* the defaults of the signature
CreateItemDefaults ==
    [k \in CreateItemParams |->
        IF k = "quantity" THEN PyInt(1)
        ELSE IF k = "status" THEN PyStr("preview")
        ELSE PyNone]

\* the three arguments as they stand after lines 551-553
create_item_floats(a) ==
    [a EXCEPT !.buy_now_price = float_if(@),
              !.minimum_increase = float_if(@),
              !.starting_price = float_if(@)]

HasBadElement(v, S) == \E i \in 1..Len(v.l) : v.l[i] \notin S

\* variant: the postal code is demanded wherever the item is
postal_check_always(f) == f.postal_code.t = "None"

\* `is_location_abroad is not None and is_location_abroad == 0 and postal_code is None`
postal_check(f) ==
    /\ f.is_location_abroad.t # "None"
    /\ NumEq(f.is_location_abroad, 0)
    /\ f.postal_code.t = "None"

\* variant: the first test alone, open_days is not looked at
timing_check_times_only(f) == truthy(f.list_time) # truthy(f.closing_time)

\* `bool(list_time) != bool(closing_time)`, then
\* `not bool(list_time) != bool(open_days)`, which is not (a != b)
timing_check(f) ==
    \/ truthy(f.list_time) # truthy(f.closing_time)
    \/ ~(truthy(f.list_time) # truthy(f.open_days))

\* the three tests that follow the sale_method test
price_check(f) ==
    \/ (f.sale_method = PyStr("buy-now") /\ f.buy_now_price.t = "None")
    \/ (f.sale_method = PyStr("buy-now") /\ f.minimum_increase.t # "None")
    \/ (f.sale_method = PyStr("auction") /\ f.starting_price.t = "None")

\* the validations of create_item in source order: what the first one that
\* fires does ("ValueError"/"TypeError" raised, "False" returned), or Passed
create_item_validate(a) ==
    LET f == create_item_floats(a) IN
    FirstFired(<<
      Check(float_if_error(a.buy_now_price) # "ok", float_if_error(a.buy_now_price), "buy_now_price"),
      Check(float_if_error(a.minimum_increase) # "ok", float_if_error(a.minimum_increase), "minimum_increase"),
      Check(float_if_error(a.starting_price) # "ok", float_if_error(a.starting_price), "starting_price"),
      Check(~is_type(f.category_id, "int"), "TypeError", "category_id"),
      Check(~is_type(f.delivery_methods, "list"), "TypeError", "delivery_methods"),
      Check(~is_type(f.minimum_feedback, "int"), "TypeError", "minimum_feedback"),
      Check(~is_type(f.open_days, "int"), "TypeError", "open_days"),
      Check(~is_type(f.original_id, "int"), "TypeError", "original_id"),
      Check(~is_type(f.payment_methods, "list"), "TypeError", "payment_methods"),
      Check(~is_type(f.quantity, "int"), "TypeError", "quantity"),
      Check(truthy(f.condition) /\ NotInStrings(f.condition,
                {"new", "like-new", "good", "acceptable", "weak"}),
            "ValueError", "condition"),
      Check(truthy(f.closing_time) /\ strptime_error(f.closing_time) = "TypeError",
            "TypeError", "closing_time"),
      Check(truthy(f.closing_time) /\ strptime_error(f.closing_time) = "ValueError",
            "False", "closing_time"),
      Check(truthy(f.delivery_methods) /\ HasBadElement(f.delivery_methods,
                {"pickup", "shipment"}),
            "ValueError", "delivery_methods"),
      Check(truthy(f.identification_required) /\ NotIn01(f.identification_required),
            "ValueError", "identification_required"),
      Check(f.is_location_abroad.t # "None" /\ NotIn01(f.is_location_abroad),
            "ValueError", "is_location_abroad"),
      Check(postal_check(f), "ValueError", "postal_code"),
      Check(truthy(f.list_time) /\ strptime_error(f.list_time) = "TypeError",
            "TypeError", "list_time"),
      Check(truthy(f.list_time) /\ strptime_error(f.list_time) = "ValueError",
            "False", "list_time"),
      Check(timing_check(f), "ValueError", "timing"),
      Check(truthy(f.marginal_tax) /\ NotIn01(f.marginal_tax), "ValueError", "marginal_tax"),
      Check(truthy(f.minimum_increase) /\ NotIn01(f.minimum_increase),
            "ValueError", "minimum_increase"),
      Check(truthy(f.offers_allowed) /\ NotIn01(f.offers_allowed), "ValueError", "offers_allowed"),
      Check(truthy(f.payment_methods) /\ HasBadElement(f.payment_methods,
                {"wire-transfer", "cash", "mobile-pay"}),
            "ValueError", "payment_methods"),
      Check(f.quantity.t # "int", "TypeError", "quantity"),
      Check(truthy(f.republish) /\ NotIn01(f.republish), "ValueError", "republish"),
      Check(NotInStrings(f.sale_method, {"auction", "buy-now"}), "ValueError", "sale_method"),
      Check(price_check(f), "ValueError", "price"),
      Check(NotInStrings(f.status, {"draft", "preview"}), "ValueError", "status"),
      Check(truthy(f.vat) /\ NotInRange100(f.vat), "ValueError", "vat")
    >>)

\* the wire name create_item gives each argument
create_item_wire(k) ==
    CASE k = "buy_now_price" -> "buyNowPrice"
      [] k = "category_id" -> "categoryId"
      [] k = "closing_time" -> "closingTime"
      [] k = "delivery_methods" -> "deliveryMethods "
      [] k = "delivery_terms" -> "deliveryTerms"
      [] k = "identification_required" -> "identificationRequired"
      [] k = "is_location_abroad" -> "isLocationAbroad"
      [] k = "list_time" -> "listTime"
      [] k = "marginal_tax" -> "marginalTax"
      [] k = "minimum_feedback" -> "minimumFeedback"
      [] k = "minimum_increase" -> "minimumIncrease"
      [] k = "offers_allowed" -> "offersAllowed"
      [] k = "open_days" -> "openDays"
      [] k = "original_id" -> "originalId"
      [] k = "payment_methods" -> "paymentMethods"
      [] k = "payment_terms" -> "paymentTerms"
      [] k = "postal_code" -> "postalCode"
      [] k = "sale_method" -> "saleMethod"
      [] k = "starting_price" -> "startingPrice"
      [] OTHER -> k

\* `{k: v for k, v in data.items() if v is not None}`
DropNone(wire, params, f) ==
    LET kept == { k \in params : f[k].t # "None" } IN
    [w \in { wire[k] : k \in kept } |-> f[CHOOSE k \in kept : wire[k] = w]]

\* the data create_item posts
create_item_data(a) ==
    DropNone([k \in CreateItemParams |-> create_item_wire(k)], CreateItemParams,
             create_item_floats(a))

\* -------------------------------------------------------------- list_items
ListItemsParams ==
    {"addtime", "area", "biddernro", "category", "classification",
     "closingtime", "feedback_limit", "limit", "page", "price_max",
     "price_min", "seller_type", "sellernro", "sellstyle", "sort", "status",
     "words"}

ListItemsDefaults == [k \in ListItemsParams |-> PyNone]

\* `limit not in [50, 500]`
NotIn50_500(v) == ~(NumEq(v, 50) \/ NumEq(v, 500))

\* `if v and v not in [...]`
enum_check(v, S) == truthy(v) /\ NotInStrings(v, S)

\* the validations of list_items in source order
list_items_validate(a) ==
    FirstFired(<<
      Check(enum_check(a.addtime, {"past-day", "past-2days", "past-5days", "past-week"}),
            "ValueError", "addtime"),
      Check(enum_check(a.classification,
                {"none", "new", "like-new", "good", "acceptable", "weak"}),
            "ValueError", "classification"),
      Check(truthy(a.limit) /\ NotIn50_500(a.limit), "ValueError", "limit"),
      Check(enum_check(a.sellstyle, {"all", "auction", "buy-now"}),
            "ValueError", "sellstyle"),
      Check(enum_check(a.sort,
                {"hits", "newest", "closing", "lowprice", "highprice", "bidders", "title"}),
            "ValueError", "sort"),
      Check(~is_type(a.biddernro, "int"), "TypeError", "biddernro"),
      Check(~is_type(a.feedback_limit, "int"), "TypeError", "feedback_limit"),
      Check(~is_type(a.page, "int"), "TypeError", "page"),
      Check(~is_type(a.sellernro, "int"), "TypeError", "sellernro"),
      Check(float_if_error(a.price_min) # "ok", float_if_error(a.price_min), "price_min"),
      Check(float_if_error(a.price_max) # "ok", float_if_error(a.price_max), "price_max")
    >>)

\* the params dict list_items hands to get: every key, None included
list_items_params(a) ==
    [a EXCEPT !.price_min = float_if(@), !.price_max = float_if(@)]

\* what requests puts on the wire of a dict: the entries that are not None
Encoded(d) == DropNone([k \in DOMAIN d |-> k], DOMAIN d, d)

\* ------------------------------------------------------------------- state
VARIABLES
    file,     \* huuto_config.ini: its 'Huuto.net' (main) and 'token' sections
    now,      \* datetime.datetime.now(datetime.timezone.utc)
    pc,       \* pc[p]: where process p stands in its current call
    call,     \* call[p]: the arguments of the call in progress
    loc,      \* loc[p]: the local variables of authenticate/update_token/get...
    result,   \* result[p]: "none", "ok" or the exception the call raised
    retval,   \* retval[p]: what the call returned
    obs       \* obs[p]: what the call did so far (requests sent, file accesses)

vars == <<file, now, pc, call, loc, result, retval, obs>>

NoData == [k \in {} |-> PyNone]
NoCall ==
    [fn |-> "none", method |-> "none", auth |-> FALSE, accepted |-> {},
     args |-> NoData, path |-> "", pathid |-> <<>>, data |-> NoData]
NoLocals ==
    [token_data |-> <<>>, response |-> <<>>, matched_userid |-> <<>>,
     cfg |-> <<>>, headers |-> <<>>, resp |-> <<>>, username |-> <<>>,
     password |-> <<>>]
NoObs ==
    [reads |-> 0, writes |-> 0, chk |-> <<>>, sent |-> <<>>, xstat |-> <<>>,
     parsed |-> FALSE]

\* call[p].path is the path with {} where an id is formatted in, and
\* call[p].pathid is that id, as <<>> or <<id>>
\* accepted_status_codes as callers pass it; {} stands for the default False
AcceptedArgs == { {}, {200, 201}, {204}, {200, 404} }
TransportMethods == {"get", "post", "put", "delete"}
Calls ==
    { [fn |-> m, method |-> m, auth |-> a, accepted |-> c,
       args |-> NoData, path |-> "/", pathid |-> <<>>, data |-> NoData] :
         m \in TransportMethods, a \in BOOLEAN, c \in AcceptedArgs } \cup
    { [fn |-> "authenticate", method |-> "authenticate", auth |-> TRUE,
       accepted |-> {}, args |-> NoData, path |-> "", pathid |-> <<>>,
       data |-> NoData] }

InitialFiles ==
    { [main |-> <<Credentials>>, token |-> <<InitialTokenRecord(e)>>] : e \in Stamps }

Init ==
    /\ file \in InitialFiles
    /\ now = 0
    /\ pc = [p \in Procs |-> "idle"]
    /\ call = [p \in Procs |-> NoCall]
    /\ loc = [p \in Procs |-> NoLocals]
    /\ result = [p \in Procs |-> "none"]
    /\ retval = [p \in Procs |-> "none"]
    /\ obs = [p \in Procs |-> NoObs]

\* variant: an exchange that fails is sent again
Raise_retry(p, kind) ==
    /\ pc' = [pc EXCEPT ![p] = IF pc[p] = "x_recv" THEN "x_send" ELSE "done"]
    /\ result' = [result EXCEPT ![p] = IF pc[p] = "x_recv" THEN @ ELSE kind]

\* the call of process p ends by raising `kind`
Raise(p, kind) ==
    /\ pc' = [pc EXCEPT ![p] = "done"]
    /\ result' = [result EXCEPT ![p] = kind]

Goto(p, label) ==
    /\ pc' = [pc EXCEPT ![p] = label]
    /\ UNCHANGED result

\* one more read of the config file by p
NoteRead(o) == [o EXCEPT !.reads = @ + 1]
NoteWrite(o) == [o EXCEPT !.writes = @ + 1]

\* variant: the token is read once, when the module is loaded
token_cached(f) == "t0"

\* token(): cfg['token']['token'] of a file that has the section
token(f) == f.token[1].token

\* the token the file holds, as <<>> or <<token>>
PersistedToken(f) == IF HasSection(f, "token") THEN <<f.token[1].token>> ELSE <<>>

\* ----------------------------------------------------------------- actions
\* a caller enters get/post/put/delete or authenticate
Call(p) ==
    /\ pc[p] = "idle"
    /\ \E c \in Calls :
         /\ call' = [call EXCEPT ![p] = c]
         /\ Goto(p, IF c.auth THEN "a_user" ELSE "send")
    /\ UNCHANGED <<file, now, loc, retval, obs>>

\* authenticate: username = config()['username']
config_username(p) ==
    /\ pc[p] = "a_user"
    /\ IF HasSection(file, "main")
         THEN /\ loc' = [loc EXCEPT ![p].username = <<file.main[1].username>>]
              /\ Goto(p, "a_pass")
         ELSE /\ UNCHANGED loc
              /\ Raise(p, "KeyError")
    /\ obs' = [obs EXCEPT ![p] = NoteRead(@)]
    /\ UNCHANGED <<file, now, call, retval>>

\* authenticate: password = config()['password']
config_password(p) ==
    /\ pc[p] = "a_pass"
    /\ IF HasSection(file, "main")
         THEN /\ loc' = [loc EXCEPT ![p].password = <<file.main[1].password>>]
              /\ Goto(p, "a_tokdata")
         ELSE /\ UNCHANGED loc
              /\ Raise(p, "KeyError")
    /\ obs' = [obs EXCEPT ![p] = NoteRead(@)]
    /\ UNCHANGED <<file, now, call, retval>>

\* authenticate: token_data = get_token_data()
get_token_data(p) ==
    /\ pc[p] = "a_tokdata"
    /\ IF HasSection(file, "token")
         THEN /\ loc' = [loc EXCEPT ![p].token_data = file.token]
              /\ Goto(p, "a_check")
         ELSE /\ UNCHANGED loc
              /\ Raise(p, "KeyError")
    /\ obs' = [obs EXCEPT ![p] = NoteRead(@)]
    /\ UNCHANGED <<file, now, call, retval>>

\* authenticate: token_expires = parse(...); now = ...; if token_expires < now
authenticate_check(p) ==
    /\ pc[p] = "a_check"
    /\ LET token_expires == parse(loc[p].token_data[1].expires)
           refresh == Expired(token_expires, now)
       IN /\ obs' = [obs EXCEPT ![p].chk =
                        <<[at |-> now, expires |-> token_expires, refresh |-> refresh]>>]
          /\ Goto(p, IF refresh THEN "x_send" ELSE "a_token")
    /\ UNCHANGED <<file, now, call, loc, retval>>

\* authenticate: response = post(path, data, False, [200, 201]) -- the request
exchange_send(p) ==
    /\ pc[p] = "x_send"
    /\ \E r \in AuthResponses(now) :
         /\ loc' = [loc EXCEPT ![p].response = <<r>>]
         /\ obs' = [obs EXCEPT ![p].sent =
                       Append(@, [to |-> "authentication", token |-> <<>>,
                                  persisted |-> PersistedToken(file),
                                  method |-> "post", path |-> "/authentication",
                                  pathid |-> <<>>,
                                  data |-> [username |-> PyStr(loc[p].username[1]),
                                            password |-> PyStr(loc[p].password[1])]]),
                                ![p].xstat = <<r.status>>]
    /\ Goto(p, "x_recv")
    /\ UNCHANGED <<file, now, call, retval>>

\* post validates and decodes the answer; authenticate matches the user id
exchange_recv(p) ==
    /\ pc[p] = "x_recv"
    /\ LET r == loc[p].response[1]
           o == TransportOutcome("post", r, AcceptedOrDefault({200, 201}))
           m == re_search(r.body.user)
       IN IF o.result # "ok" THEN Raise(p, o.result) /\ UNCHANGED loc
          ELSE IF r.body.kind # "auth" THEN Raise(p, "KeyError") /\ UNCHANGED loc
          ELSE IF m = <<>> THEN Raise(p, "AttributeError") /\ UNCHANGED loc
          ELSE /\ loc' = [loc EXCEPT ![p].matched_userid = m]
               /\ Goto(p, "u_read")
    /\ obs' = [obs EXCEPT ![p].parsed =
                  TransportOutcome("post", loc[p].response[1],
                                   AcceptedOrDefault({200, 201})).parsed]
    /\ UNCHANGED <<file, now, call, retval>>

\* variant: the token section is left as it was read
update_token_cfg_keep(f, body, userid) == f

\* variant: only the token section is written back
update_token_cfg_token_only(f, body, userid) ==
    [main |-> <<>>,
     token |-> <<TokenRecord(body.id, body.startTime, body.expires, userid)>>]

\* the ConfigParser update_token holds after cfg.read and cfg['token'] = {...}
update_token_cfg(f, body, userid) ==
    [f EXCEPT !.token = <<TokenRecord(body.id, body.startTime, body.expires, userid)>>]

\* update_token: cfg.read(config_file); cfg['token'] = {...}
update_token_read(p) ==
    /\ pc[p] = "u_read"
    /\ loc' = [loc EXCEPT ![p].cfg =
                 <<update_token_cfg(file, loc[p].response[1].body,
                                    loc[p].matched_userid[1])>>]
    /\ obs' = [obs EXCEPT ![p] = NoteRead(@)]
    /\ Goto(p, "u_open")
    /\ UNCHANGED <<file, now, call, retval>>

\* update_token: open(config_file, 'w') truncates the file
update_token_open(p) ==
    /\ pc[p] = "u_open"
    /\ file' = EmptyFile
    /\ obs' = [obs EXCEPT ![p] = NoteWrite(@)]
    /\ Goto(p, "u_write")
    /\ UNCHANGED <<now, call, loc, retval>>

\* update_token: cfg.write(configfile) and the close of the with block
update_token_write(p) ==
    /\ pc[p] = "u_write"
    /\ file' = loc[p].cfg[1]
    /\ obs' = [obs EXCEPT ![p] = NoteWrite(@)]
    /\ Goto(p, "a_token")
    /\ UNCHANGED <<now, call, loc, retval>>

\* authenticate: return token(); its locals go out of scope
authenticate_return(p) ==
    /\ pc[p] = "a_token"
    /\ obs' = [obs EXCEPT ![p] = NoteRead(@)]
    /\ loc' = [loc EXCEPT ![p] = NoLocals]
    /\ IF ~HasSection(file, "token")
         THEN Raise(p, "KeyError") /\ UNCHANGED retval
         ELSE IF call[p].method = "authenticate"
           THEN /\ pc' = [pc EXCEPT ![p] = "done"]
                /\ result' = [result EXCEPT ![p] = "ok"]
                /\ retval' = [retval EXCEPT ![p] = token(file)]
           ELSE Goto(p, "h_token") /\ UNCHANGED retval
    /\ UNCHANGED <<file, now, call>>

\* get/post/put/delete: headers = {'X-HuutoApiToken': token()}
header_token(p) ==
    /\ pc[p] = "h_token"
    /\ obs' = [obs EXCEPT ![p] = NoteRead(@)]
    /\ IF HasSection(file, "token")
         THEN /\ loc' = [loc EXCEPT ![p].headers = <<token(file)>>]
              /\ Goto(p, "send")
         ELSE /\ UNCHANGED loc
              /\ Raise(p, "KeyError")
    /\ UNCHANGED <<file, now, call, retval>>

\* get/post/put/delete: resp = requests.<method>(_url(path), ..., headers=headers)
send(p) ==
    /\ pc[p] = "send"
    /\ \E r \in EndpointResponses :
         loc' = [loc EXCEPT ![p].resp = <<r>>]
    /\ obs' = [obs EXCEPT ![p].sent =
                  Append(@, [to |-> "endpoint", token |-> loc[p].headers,
                             persisted |-> PersistedToken(file),
                             method |-> call[p].method, path |-> call[p].path,
                             pathid |-> call[p].pathid,
                             data |-> Encoded(call[p].data)])]
    /\ Goto(p, "validate")
    /\ UNCHANGED <<file, now, call, retval>>

\* get/post/put: validate_response, json.loads, return contents;
\* delete: validate_response, return resp
validate(p) ==
    /\ pc[p] = "validate"
    /\ LET o == TransportOutcome(call[p].method, loc[p].resp[1],
                                 AcceptedOrDefault(call[p].accepted))
       IN /\ pc' = [pc EXCEPT ![p] = "done"]
          /\ result' = [result EXCEPT ![p] = o.result]
          /\ obs' = [obs EXCEPT ![p].parsed = o.parsed]
          /\ retval' = [retval EXCEPT ![p] =
                          IF o.result # "ok" THEN "none"
                          ELSE IF call[p].method = "delete" THEN "resp"
                          ELSE "contents"]
    /\ UNCHANGED <<file, now, call, loc>>

\* the caller has the result (or the exception); the process is free again
Return(p) ==
    /\ pc[p] \in {"done", "killed"}
    /\ pc' = [pc EXCEPT ![p] = "idle"]
    /\ call' = [call EXCEPT ![p] = NoCall]
    /\ loc' = [loc EXCEPT ![p] = NoLocals]
    /\ result' = [result EXCEPT ![p] = "none"]
    /\ retval' = [retval EXCEPT ![p] = "none"]
    /\ obs' = [obs EXCEPT ![p] = NoObs]
    /\ UNCHANGED <<file, now>>

\* time passes
Tick ==
    /\ now < MaxTime
    /\ now' = now + 1
    /\ UNCHANGED <<file, pc, call, loc, result, retval, obs>>

\* the process is killed in the middle of a call; the file stays as it is
Crash(p) ==
    /\ pc[p] \notin {"idle", "done", "killed"}
    /\ pc' = [pc EXCEPT ![p] = "killed"]
    /\ loc' = [loc EXCEPT ![p] = NoLocals]
    /\ UNCHANGED <<file, now, call, result, retval, obs>>

\* ------------------------------------------------ arguments callers pass
\* test_create_item_auction
AuctionItem ==
    [CreateItemDefaults EXCEPT
        !.category_id = PyInt(527), !.condition = PyStr("weak"),
        !.delivery_methods = PyList(<<"pickup", "shipment">>),
        !.delivery_terms = PyStr("no terms"), !.is_location_abroad = PyInt(0),
        !.offers_allowed = PyInt(1), !.open_days = PyInt(3),
        !.payment_methods = PyList(<<"cash", "mobile-pay", "wire-transfer">>),
        !.postal_code = PyStr("02780"), !.sale_method = PyStr("auction"),
        !.starting_price = PyFloat(10101), !.title = PyStr("A test item")]

\* test_create_item_draft
DraftItem ==
    [CreateItemDefaults EXCEPT
        !.status = PyStr("draft"), !.open_days = PyInt(3),
        !.sale_method = PyStr("auction"), !.starting_price = PyInt(1)]

\* create_item(status='draft')
DraftOnly == [CreateItemDefaults EXCEPT !.status = PyStr("draft")]

TimeArgs ==
    {PyNone, PyStr(""), PyStr("2016-11-20 19:26:00"), PyStr("20.11.2016 19:26")}
OpenDaysArgs == {PyNone, PyInt(0), PyInt(3)}
PriceArgs == {PyNone, PyInt(0), PyInt(1), PyFloat(9999), PyStr("0"), PyStr("abc")}
IncreaseArgs == {PyNone, PyInt(0), PyFloat(50), PyInt(1), PyInt(2), PyFloat(500)}

CreateItemArgs ==
    {AuctionItem, DraftItem, DraftOnly} \cup
    { [AuctionItem EXCEPT !.list_time = lt, !.closing_time = ct, !.open_days = od] :
        lt \in TimeArgs, ct \in TimeArgs, od \in OpenDaysArgs } \cup
    { [b EXCEPT !.is_location_abroad = ila, !.postal_code = pc0] :
        b \in {AuctionItem, DraftItem},
        ila \in {PyNone, PyInt(0), PyInt(1), PyInt(2)},
        pc0 \in {PyNone, PyStr("02780")} } \cup
    { [AuctionItem EXCEPT !.sale_method = sm, !.starting_price = sp,
                          !.buy_now_price = bp] :
        sm \in {PyNone, PyStr("auction"), PyStr("buy-now"), PyStr("hybrid")},
        sp \in PriceArgs, bp \in {PyNone, PyInt(0), PyFloat(9999)} } \cup
    { [AuctionItem EXCEPT !.minimum_increase = mi] : mi \in IncreaseArgs } \cup
    { [AuctionItem EXCEPT !.status = st] :
        st \in {PyStr("draft"), PyStr("preview"), PyStr("published")} } \cup
    { [AuctionItem EXCEPT !.condition = PyStr("broken")],
      [AuctionItem EXCEPT !.quantity = PyNone],
      [AuctionItem EXCEPT !.category_id = PyStr("527")],
      [AuctionItem EXCEPT !.vat = PyInt(100)],
      [AuctionItem EXCEPT !.vat = PyInt(24)] }

\* test_list_items_response_ok
LevySearch ==
    [ListItemsDefaults EXCEPT
        !.addtime = PyStr("past-5days"), !.classification = PyStr("new"),
        !.feedback_limit = PyInt(1), !.limit = PyInt(500), !.page = PyInt(2),
        !.price_min = PyInt(1), !.price_max = PyInt(10), !.words = PyStr("levy")]

EnumArgs(valid) == {PyNone, PyStr(""), PyStr(valid), PyStr("foo")}

ListItemsArgs ==
    {ListItemsDefaults, LevySearch} \cup
    UNION { { [b EXCEPT !.addtime = v] : v \in EnumArgs("past-week") } \cup
            { [b EXCEPT !.classification = v] : v \in EnumArgs("none") } \cup
            { [b EXCEPT !.limit = v] : v \in {PyNone, PyInt(0), PyInt(50), PyInt(501)} } \cup
            { [b EXCEPT !.sellstyle = v] : v \in EnumArgs("buy-now") } \cup
            { [b EXCEPT !.sort = v] : v \in EnumArgs("title") } \cup
            { [b EXCEPT !.page = PyStr("2")] }
          : b \in {ListItemsDefaults, LevySearch,
                   [LevySearch EXCEPT !.page = PyStr("2")]} } \cup
    { [LevySearch EXCEPT !.price_min = lo, !.price_max = hi] :
        lo \in {PyNone, PyInt(0), PyInt(1), PyStr("16.50"), PyStr("abc")},
        hi \in {PyNone, PyInt(0), PyInt(10)} }

\* variant: the outcome of the validations is looked at after the transport
\* call, which is entered whatever the arguments are
EndLocally_late(p, v) == Goto(p, "a_user") /\ UNCHANGED retval

\* a call that ends in the function itself, before any transport call
EndLocally(p, v) ==
    /\ pc' = [pc EXCEPT ![p] = "done"]
    /\ result' = [result EXCEPT ![p] = IF v.out = "False" THEN "ok" ELSE v.out]
    /\ retval' = [retval EXCEPT ![p] = IF v.out = "False" THEN "False" ELSE "none"]

\* create_item(...): the validations, then
\* post('/items', data, auth=True, accepted_status_codes=[200, 201], data_as_json=True)
create_item(p) ==
    /\ pc[p] = "idle"
    /\ \E a \in CreateItemArgs :
         LET v == create_item_validate(a) IN
         /\ call' = [call EXCEPT ![p] =
                       [fn |-> "create_item", method |-> "post", auth |-> TRUE,
                        accepted |-> {200, 201}, args |-> a, path |-> "/items",
                        pathid |-> <<>>,
                        data |-> IF v = Passed THEN create_item_data(a) ELSE NoData]]
         /\ IF v = Passed THEN Goto(p, "a_user") /\ UNCHANGED retval
            ELSE EndLocally(p, v)
    /\ UNCHANGED <<file, now, loc, obs>>

\* list_items(...): the validations, then get('/items', params)
list_items(p) ==
    /\ pc[p] = "idle"
    /\ \E a \in ListItemsArgs :
         LET v == list_items_validate(a) IN
         /\ call' = [call EXCEPT ![p] =
                       [fn |-> "list_items", method |-> "get", auth |-> FALSE,
                        accepted |-> {}, args |-> a, path |-> "/items",
                        pathid |-> <<>>,
                        data |-> IF v = Passed THEN list_items_params(a) ELSE NoData]]
         /\ IF v = Passed THEN Goto(p, "send") /\ UNCHANGED retval
            ELSE EndLocally(p, v)
    /\ UNCHANGED <<file, now, loc, obs>>

\* ---------------------------------------------- edit_item and the deletes
\* the ids callers format into a path, as characters
ItemIds == { <<"4", "5", "0">> }
ImageIds == { <<"9">> }

\* the defaults of edit_item's signature: quantity is None here
EditItemDefaults == [CreateItemDefaults EXCEPT !.quantity = PyNone]

\* variant: edit_item uses create_item's names throughout
edit_item_wire_camel(k) == create_item_wire(k)

\* the wire name edit_item gives each argument
edit_item_wire(k) ==
    IF k \in {"minimum_feedback", "minimum_increase", "starting_price"} THEN k
    ELSE create_item_wire(k)

\* the data edit_item puts: the arguments as they are, None dropped
edit_item_data(a) ==
    DropNone([k \in CreateItemParams |-> edit_item_wire(k)], CreateItemParams, a)

\* variant: edit_item runs the validations of create_item
edit_item_validate_as_create(a) == create_item_validate(a)

\* edit_item has no statement between its docstring and `path = ...`:
\* nothing is validated
edit_item_validate(a) == Passed

\* an edit that supplies every argument
FullItem ==
    [AuctionItem EXCEPT
        !.buy_now_price = PyFloat(9999), !.closing_time = PyStr("2016-12-04 18:55:20"),
        !.description = PyStr("Do not bid!"), !.identification_required = PyInt(0),
        !.list_time = PyStr("2016-11-20 19:26:00"), !.marginal_tax = PyInt(0),
        !.minimum_feedback = PyInt(5), !.minimum_increase = PyInt(1),
        !.original_id = PyInt(450), !.payment_terms = PyStr("Pay asap"),
        !.republish = PyInt(0), !.vat = PyInt(24)]

EditItemArgs ==
    { [EditItemDefaults EXCEPT !.title = PyStr("A new title")],
      FullItem,
      [AuctionItem EXCEPT !.minimum_feedback = PyInt(5), !.minimum_increase = PyInt(1)],
      [AuctionItem EXCEPT !.condition = PyStr("broken")],
      [AuctionItem EXCEPT !.sale_method = PyStr("hybrid")],
      [AuctionItem EXCEPT !.status = PyStr("published")],
      [AuctionItem EXCEPT !.starting_price = PyNone],
      [AuctionItem EXCEPT !.sale_method = PyStr("buy-now")],
      [AuctionItem EXCEPT !.list_time = PyStr("2016-11-20 19:26:00")],
      [AuctionItem EXCEPT !.open_days = PyNone],
      [AuctionItem EXCEPT !.postal_code = PyNone] }

\* edit_item(item_id, ...):
\* put('/items/{}/'.format(item_id), data, auth=True, accepted_status_codes=[200, 201])
edit_item(p) ==
    /\ pc[p] = "idle"
    /\ \E item_id \in ItemIds, a \in EditItemArgs :
         LET v == edit_item_validate(a) IN
         /\ call' = [call EXCEPT ![p] =
                       [fn |-> "edit_item", method |-> "put", auth |-> TRUE,
                        accepted |-> {200, 201}, args |-> a, path |-> "/items/{}/",
                        pathid |-> <<item_id>>,
                        data |-> IF v = Passed THEN edit_item_data(a) ELSE NoData]]
         /\ IF v = Passed THEN Goto(p, "a_user") /\ UNCHANGED retval
            ELSE EndLocally(p, v)
    /\ UNCHANGED <<file, now, loc, obs>>

\* delete_item(item_id):
\* delete('/items/{}/'.format(item_id), auth=True, accepted_status_codes=[204])
delete_item(p) ==
    /\ pc[p] = "idle"
    /\ \E item_id \in ItemIds :
         call' = [call EXCEPT ![p] =
                    [fn |-> "delete_item", method |-> "delete", auth |-> TRUE,
                     accepted |-> {204}, args |-> NoData, path |-> "/items/{}/",
                     pathid |-> <<item_id>>, data |-> NoData]]
    /\ Goto(p, "a_user")
    /\ UNCHANGED <<file, now, loc, retval, obs>>

\* delete_item_image(itemid, imageid):
\* delete('/items/{}/images/{}'.format(itemid, imageid), auth=True, accepted_status_codes=[204])
delete_item_image(p) ==
    /\ pc[p] = "idle"
    /\ \E itemid \in ItemIds, imageid \in ImageIds :
         call' = [call EXCEPT ![p] =
                    [fn |-> "delete_item_image", method |-> "delete", auth |-> TRUE,
                     accepted |-> {204}, args |-> NoData,
                     path |-> "/items/{}/images/{}",
                     pathid |-> <<itemid, imageid>>, data |-> NoData]]
    /\ Goto(p, "a_user")
    /\ UNCHANGED <<file, now, loc, retval, obs>>

\* ------------------------------------------------------- the user endpoints
\* userid(): cfg['token']['userid'] of a file that has the section
userid(f) == f.token[1].userid

\* path = '/users/{}/...'.format(userid()), then the transport call: the user
\* id is read from the file before get/post is entered
UserCall(p, fn, method, path, accepted, data) ==
    /\ obs' = [obs EXCEPT ![p] = NoteRead(@)]
    /\ call' = [call EXCEPT ![p] =
                  [fn |-> fn, method |-> method, auth |-> TRUE, accepted |-> accepted,
                   args |-> NoData, path |-> path,
                   pathid |-> IF HasSection(file, "token") THEN <<userid(file)>> ELSE <<>>,
                   data |-> data]]
    /\ IF HasSection(file, "token") THEN Goto(p, "a_user") ELSE Raise(p, "KeyError")
    /\ UNCHANGED <<file, now, loc, retval>>

get_user_info(p) ==
    /\ pc[p] = "idle"
    /\ UserCall(p, "get_user_info", "get", "/users/{}/", {}, NoData)

get_user_settings(p) ==
    /\ pc[p] = "idle"
    /\ UserCall(p, "get_user_settings", "get", "/users/{}/settings", {}, NoData)

get_user_feedbacks(p) ==
    /\ pc[p] = "idle"
    /\ UserCall(p, "get_user_feedbacks", "get", "/users/{}/feedbacks", {}, NoData)

get_user_favorites(p) ==
    /\ pc[p] = "idle"
    /\ UserCall(p, "get_user_favorites", "get", "/users/{}/favorites", {}, NoData)

add_user_favorites(p) ==
    /\ pc[p] = "idle"
    /\ UserCall(p, "add_user_favorites", "post", "/users/{}/favorites", {201},
             [itemid |-> PyInt(450)])

get_user_purchases(p) ==
    /\ pc[p] = "idle"
    /\ \E status \in {"all", "open"} :
        UserCall(p, "get_user_purchases", "get", "/users/{}/purchases", {},
                 [status |-> PyStr(status), post_id |-> PyBool(FALSE)])

get_user_sales(p) ==
    /\ pc[p] = "idle"
    /\ UserCall(p, "get_user_sales", "get", "/users/{}/sales", {},
             [page |-> PyInt(1), status |-> PyStr("all"), sold |-> PyInt(0),
              sort |-> PyStr("closing-time"), republished |-> PyStr("")])

UserEndpoints ==
    {"get_user_info", "get_user_settings", "get_user_feedbacks", "get_user_favorites",
     "add_user_favorites", "get_user_purchases", "get_user_sales"}

\* the steps inside get/post/put/delete and authenticate
Transport(p) ==
    \/ config_username(p)
    \/ config_password(p)
    \/ get_token_data(p)
    \/ authenticate_check(p)
    \/ exchange_send(p)
    \/ exchange_recv(p)
    \/ update_token_read(p)
    \/ update_token_open(p)
    \/ update_token_write(p)
    \/ authenticate_return(p)
    \/ header_token(p)
    \/ send(p)
    \/ validate(p)
    \/ Return(p)

Step(p) == Call(p) \/ Transport(p)

Next == Tick \/ \E p \in Single : Step(p)

\* the single synchronous caller of spec.md section 5
Spec == Init /\ [][Next]_vars

NextCrash == Next \/ \E p \in Single : Crash(p)

\* the same caller, whose process may be killed at any point of a call
SpecCrash == Init /\ [][NextCrash]_vars


NextAll == \E p \in Single : Call(p) \/ create_item(p) \/ list_items(p) \/ Transport(p)

\* the single caller using every modelled operation, the clock standing
\* still; the code is synchronous, so a call that has been entered goes on
\* step by step until it has ended
SpecAllFair == Init /\ [][NextAll]_vars /\ \A p \in Single : WF_vars(Transport(p))

NextItems ==
    \E p \in Single :
        \/ create_item(p)
        \/ list_items(p)
        \/ edit_item(p)
        \/ delete_item(p)
        \/ delete_item_image(p)
        \/ Transport(p)

\* the single caller using the item endpoints create_item and list_items; the
\* clock stands still, the token of the initial file is expired or not
SpecItems == Init /\ [][NextItems]_vars

NextUsers ==
    \E p \in Single :
        \/ get_user_info(p)
        \/ get_user_settings(p)
        \/ get_user_feedbacks(p)
        \/ get_user_favorites(p)
        \/ add_user_favorites(p)
        \/ get_user_purchases(p)
        \/ get_user_sales(p)
        \/ Transport(p)

\* the single caller using the user endpoints, the clock standing still
SpecUsers == Init /\ [][NextUsers]_vars

\* a caller enters authenticate(), the first statement of every call with auth
authenticate(p) ==
    /\ pc[p] = "idle"
    /\ call' = [call EXCEPT ![p] =
                  [fn |-> "authenticate", method |-> "authenticate", auth |-> TRUE,
                   accepted |-> {}, args |-> NoData, path |-> "", pathid |-> <<>>,
                   data |-> NoData]]
    /\ Goto(p, "a_user")
    /\ UNCHANGED <<file, now, loc, retval, obs>>

\* the config file holds an expired token
InitRace == Init /\ parse(file.token[1].expires) < now

NextRace ==
    \E p \in Procs :
        \/ authenticate(p)
        \/ config_username(p)
        \/ config_password(p)
        \/ get_token_data(p)
        \/ authenticate_check(p)
        \/ exchange_send(p)
        \/ exchange_recv(p)
        \/ update_token_read(p)
        \/ update_token_open(p)
        \/ update_token_write(p)
        \/ authenticate_return(p)

\* two processes that share the config file and each call authenticate()
\* once, their steps interleaved in every order
SpecRace == InitRace /\ [][NextRace]_vars

\* ================================================================== claims
ApiErrorKinds ==
    {"ApiBadRequestError", "ApiUnauthorizedError", "ApiForbiddenError",
     "ApiNotFoundError", "ApiNotImplementedError", "ApiError"}

\* the table of spec.md section 4.3
StatusKind(status) ==
    CASE status = 400 -> "ApiBadRequestError"
      [] status = 401 -> "ApiUnauthorizedError"
      [] status = 403 -> "ApiForbiddenError"
      [] status = 404 -> "ApiNotFoundError"
      [] status = 501 -> "ApiNotImplementedError"
      [] OTHER -> "ApiError"

Accepted(p) == IF call[p].accepted = {} THEN {200} ELSE call[p].accepted
Answered(p) == pc[p] = "done" /\ loc[p].resp # <<>>
Checked(p) == obs[p].chk # <<>>
ExchangesSent(p) ==
    Cardinality({ i \in 1..Len(obs[p].sent) : obs[p].sent[i].to = "authentication" })
EndpointsSent(p) ==
    Cardinality({ i \in 1..Len(obs[p].sent) : obs[p].sent[i].to = "endpoint" })
ExchangeFailed(p) == obs[p].xstat # <<>> /\ obs[p].xstat[1] \notin {200, 201}

\* C1: a status code outside the accepted set is answered with the error kind
\* of the table: 400, 401, 403, 404 and 501 with their own kind, every other
\* code with the generic ApiError
C1_StatusToKind ==
    \A p \in Procs :
        (Answered(p) /\ loc[p].resp[1].status \notin Accepted(p))
            => result[p] = StatusKind(loc[p].resp[1].status)

C1_Witness ==
    \E p \in Procs :
        /\ Answered(p)
        /\ loc[p].resp[1].status = 501
        /\ Accepted(p) = {200, 201}
        /\ result[p] = "ApiNotImplementedError"

\* C2: a status code that is in the accepted set never raises an error
C2_AcceptedNeverRaises ==
    \A p \in Procs :
        (Answered(p) /\ loc[p].resp[1].status \in Accepted(p))
            => result[p] \notin ApiErrorKinds

\* C3: once the check found the token expired, exactly one exchange is sent;
\* when update_token has run, the file holds the id, start time, expiry and
\* user id of that exchange's answer; the endpoint request goes out after
\* that, second and last, with the token the file then holds
C3_RefreshThenSend ==
    \A p \in Procs :
        (Checked(p) /\ obs[p].chk[1].expires < obs[p].chk[1].at) =>
            /\ obs[p].chk[1].refresh
            /\ pc[p] # "x_send" => ExchangesSent(p) = 1
            /\ pc[p] = "a_token" =>
                 LET b == loc[p].response[1].body IN
                 file.token = << [userid |-> re_search(b.user)[1], token |-> b.id,
                                  start_time |-> b.startTime, expires |-> b.expires] >>
            /\ (pc[p] = "done" /\ result[p] \in {"ok"} \cup ApiErrorKinds
                                /\ ~ExchangeFailed(p)) =>
                 /\ obs[p].writes = 2
                 /\ call[p].method # "authenticate" => EndpointsSent(p) = 1
            /\ EndpointsSent(p) > 0 =>
                 /\ Len(obs[p].sent) = 2
                 /\ obs[p].sent[1].to = "authentication"
                 /\ obs[p].sent[2].to = "endpoint"
                 /\ obs[p].xstat[1] \in {200, 201}
                 /\ obs[p].writes = 2
                 /\ obs[p].sent[2].token # <<>>
                 /\ obs[p].sent[2].token = obs[p].sent[2].persisted
                 /\ obs[p].sent[2].token = PersistedToken(file)
                 /\ obs[p].sent[2].token[1] \in Tokens

C3_Witness ==
    \E p \in Procs :
        /\ pc[p] = "done"
        /\ result[p] = "ok"
        /\ call[p].method = "post"
        /\ Checked(p) /\ obs[p].chk[1].refresh
        /\ Len(obs[p].sent) = 2
        /\ obs[p].sent[2].token = <<"tB">>
        /\ file.token[1].userid = <<"1", "2", "3">>

\* C4: while the check found the expiry in the future, no exchange is sent,
\* no step changes the file, and authenticate returns the persisted token
C4_ValidTokenKept ==
    [][ \A p \in Procs :
          (obs'[p].chk # <<>> /\ obs'[p].chk[1].at < obs'[p].chk[1].expires) =>
              /\ file' = file
              /\ obs'[p].writes = 0
              /\ \A i \in 1..Len(obs'[p].sent) : obs'[p].sent[i].to # "authentication"
              /\ (pc'[p] = "done" /\ call'[p].method = "authenticate") =>
                   /\ result'[p] = "ok"
                   /\ <<retval'[p]>> = PersistedToken(file') ]_vars

C4_Witness ==
    \E p \in Procs :
        /\ pc[p] = "done"
        /\ call[p].method = "authenticate"
        /\ Checked(p) /\ obs[p].chk[1].at < obs[p].chk[1].expires
        /\ retval[p] = "tA"
        /\ obs[p].sent = <<>>

\* C5: a token the check lets through without an exchange has its expiry
\* strictly after the time of the check
C5_ValidOnlyBeforeExpiry ==
    \A p \in Procs :
        (Checked(p) /\ ~obs[p].chk[1].refresh) => obs[p].chk[1].at < obs[p].chk[1].expires

\* C6: when the exchange is answered with a status other than 200 and 201,
\* it is the only request of the call, the file is not written, and the call
\* ends with the error of that answer
C6_FailedExchangeStops ==
    [][ \A p \in Procs :
          (obs'[p].xstat # <<>> /\ obs'[p].xstat[1] \notin {200, 201}) =>
              /\ file' = file
              /\ obs'[p].writes = 0
              /\ Len(obs'[p].sent) = 1
              /\ obs'[p].sent[1].to = "authentication"
              /\ pc'[p] \in {"x_recv", "done"}
              /\ pc'[p] = "done" => result'[p] \in ApiErrorKinds ]_vars

C6_Witness ==
    \E p \in Procs :
        /\ pc[p] = "done"
        /\ call[p].method = "put"
        /\ ExchangeFailed(p)
        /\ obs[p].xstat = <<403>>
        /\ result[p] = "ApiForbiddenError"
        /\ EndpointsSent(p) = 0

C8_AtomicPersist ==
    \A p \in Procs :
        pc[p] = "killed" => (HasSection(file, "main") /\ HasSection(file, "token"))

\* C9: in get, post and put a response whose status is not accepted is never
\* decoded, and the call ends with the status-derived error
C9_ValidateBeforeParse ==
    \A p \in Procs :
        /\ (Answered(p) /\ call[p].method \in {"get", "post", "put"}
                        /\ loc[p].resp[1].status \notin Accepted(p))
             => (~obs[p].parsed /\ result[p] \in ApiErrorKinds)
        /\ (pc[p] = "done" /\ ExchangeFailed(p))
             => (~obs[p].parsed /\ result[p] \in ApiErrorKinds)

C9_Witness ==
    \E p \in Procs :
        /\ Answered(p)
        /\ call[p].method = "get"
        /\ loc[p].resp[1] = [status |-> 404, body |-> NotJson]
        /\ Accepted(p) = {200}
        /\ result[p] = "ApiNotFoundError"

\* C10: an endpoint request of a call with auth set is sent after the check
\* and carries the token the file holds when it is sent; a call without auth
\* sends its request without a token, sends no exchange and neither reads nor
\* writes the file
C10_AuthFlag ==
    \A p \in Procs :
        /\ \A i \in 1..Len(obs[p].sent) :
             (obs[p].sent[i].to = "endpoint" /\ call[p].auth) =>
                 /\ Checked(p)
                 /\ obs[p].sent[i].token # <<>>
                 /\ obs[p].sent[i].token = obs[p].sent[i].persisted
        /\ (call[p].method \in TransportMethods /\ ~call[p].auth) =>
             /\ obs[p].reads = 0
             /\ obs[p].writes = 0
             /\ ~Checked(p)
             /\ \A i \in 1..Len(obs[p].sent) :
                  obs[p].sent[i].to = "endpoint" /\ obs[p].sent[i].token = <<>>

C10_Witness ==
    \E p \in Procs :
        /\ pc[p] = "validate"
        /\ call[p].method = "delete"
        /\ call[p].auth
        /\ Len(obs[p].sent) = 2
        /\ obs[p].sent[2].token = <<"tA">>

\* ---------------------------------------------- claims on the item endpoints
\* the call c is a create_item or list_items whose arguments do not pass the
\* function's validations
Rejected(c) ==
    \/ c.fn = "create_item" /\ create_item_validate(c.args) # Passed
    \/ c.fn = "list_items" /\ list_items_validate(c.args) # Passed
RejectedLocally(p) == Rejected(call[p])

TokenExpired == HasSection(file, "token") /\ parse(file.token[1].expires) < now

\* C11: when create_item or list_items rejects its arguments, the call has
\* sent nothing (no endpoint request, no credential exchange), has neither
\* read nor written the config file, and no step of it changes the file,
\* whether the persisted token is expired or not
C11_RejectedBeforeNetwork ==
    [][\A p \in Procs :
          Rejected(call'[p]) =>
              /\ obs'[p].sent = <<>>
              /\ obs'[p].reads = 0 /\ obs'[p].writes = 0
              /\ obs'[p].chk = <<>>
              /\ file' = file]_vars

C11_Witness ==
    \E p \in Procs :
        /\ RejectedLocally(p)
        /\ call[p].fn = "create_item"
        /\ result[p] = "ValueError"
        /\ TokenExpired
        /\ obs[p].sent = <<>>

\* the call in progress is a create_item that has come to its end
CreateItemDone(p) == call[p].fn = "create_item" /\ pc[p] = "done"

\* a non-empty string that is not of the format '%Y-%m-%d %H:%M:%S'
BadTime(v) == v.t = "str" /\ v.s # "" /\ v.s \notin TimeStrings

\* C12: a create_item whose closing_time or list_time does not match the
\* format ends with a validation error raised to the caller, never with a
\* returned value
C12_BadTimeRaises ==
    \A p \in Procs :
        (CreateItemDone(p) /\ (BadTime(call[p].args.closing_time)
                               \/ BadTime(call[p].args.list_time)))
            => result[p] \in {"ValueError", "TypeError"}

ValidationErrors == {"ValueError", "TypeError"}
NoPostalCode(a) == a.postal_code.t = "None"

\* C13: every create_item without a postal code whose is_location_abroad is
\* not 1 (0, or left unset) fails local validation and sends nothing
C13_PostalUnlessAbroad ==
    \A p \in Procs :
        (call[p].fn = "create_item" /\ NoPostalCode(call[p].args)
            /\ ~NumEq(call[p].args.is_location_abroad, 1))
        => (pc[p] = "done" /\ result[p] \in ValidationErrors /\ obs[p].sent = <<>>)

\* the arguments pass every validation once a postal code is supplied
ValidButPostal(a) ==
    create_item_validate([a EXCEPT !.postal_code = PyStr("02780")]) = Passed

\* the call got through its transport call without an exception of the
\* credential exchange or of the config file
WentThrough(p) ==
    pc[p] = "done" /\ result[p] \in {"ok"} \cup ApiErrorKinds /\ ~ExchangeFailed(p)

\* C14: with all other arguments valid, a create_item with
\* is_location_abroad=0 and no postal code ends with ValueError and sends
\* nothing; with is_location_abroad=1 and no postal code it passes the
\* validations, enters post and sends the POST to /items, the data holding
\* isLocationAbroad and no postalCode
C14_PostalAbroad ==
    \A p \in Procs :
        (call[p].fn = "create_item" /\ NoPostalCode(call[p].args)
            /\ ValidButPostal(call[p].args)) =>
            /\ NumEq(call[p].args.is_location_abroad, 0) =>
                 (pc[p] = "done" /\ result[p] = "ValueError" /\ obs[p].sent = <<>>)
            /\ NumEq(call[p].args.is_location_abroad, 1) =>
                 /\ result[p] \notin ValidationErrors
                 /\ retval[p] # "False"
                 /\ pc[p] = "done" => obs[p].reads > 0
                 /\ WentThrough(p) => EndpointsSent(p) = 1
                 /\ \A i \in 1..Len(obs[p].sent) :
                      obs[p].sent[i].to = "endpoint" =>
                        /\ obs[p].sent[i].method = "post"
                        /\ obs[p].sent[i].path = "/items"
                        /\ obs[p].sent[i].data.isLocationAbroad = PyInt(1)
                        /\ "postalCode" \notin DOMAIN obs[p].sent[i].data

C14_Witness ==
    \E p \in Procs :
        /\ call[p].fn = "create_item" /\ NoPostalCode(call[p].args)
        /\ NumEq(call[p].args.is_location_abroad, 1)
        /\ pc[p] = "done" /\ result[p] = "ok"
        /\ EndpointsSent(p) = 1

\* a field is set when the code's bool() of it is true: None, '' and 0 are not
IsSet(v) == truthy(v)

\* the arguments pass every validation when open_days alone gives the timing
ValidButTiming(a) ==
    create_item_validate([a EXCEPT !.list_time = PyNone, !.closing_time = PyNone,
                                   !.open_days = PyInt(3)]) = Passed

\* the call passed the validations and entered post
EnteredPost(p) ==
    /\ result[p] \notin ValidationErrors
    /\ retval[p] # "False"
    /\ pc[p] = "done" => obs[p].reads > 0

NonNegativeNumber(v) == v.t \in {"int", "float"} /\ v.n >= 0

\* the arguments pass every validation when the price k is 1
ValidButPrice(a, k) == create_item_validate([a EXCEPT ![k] = PyInt(1)]) = Passed

\* the call ended in the validations
FailedValidation(p) ==
    pc[p] = "done" /\ result[p] \in ValidationErrors /\ obs[p].sent = <<>>

\* C16: an auction item without starting_price and a buy-now item without
\* buy_now_price fail validation; with all other arguments valid, any
\* non-negative number as the price of the chosen sale method passes
C16_PriceForSaleMethod ==
    \A p \in Procs :
        LET a == call[p].args IN
        call[p].fn = "create_item" =>
            /\ (a.sale_method = PyStr("auction") /\ a.starting_price.t = "None")
                   => FailedValidation(p)
            /\ (a.sale_method = PyStr("buy-now") /\ a.buy_now_price.t = "None")
                   => FailedValidation(p)
            /\ (ValidButPrice(a, "starting_price") /\ a.sale_method = PyStr("auction")
                    /\ NonNegativeNumber(a.starting_price)) => EnteredPost(p)
            /\ (ValidButPrice(a, "buy_now_price") /\ a.sale_method = PyStr("buy-now")
                    /\ NonNegativeNumber(a.buy_now_price)) => EnteredPost(p)

\* the arguments the caller supplied, and the query the claim expects of them
Supplied(a) == { k \in DOMAIN a : a[k].t # "None" }
ExpectedQuery(a) ==
    [k \in Supplied(a) |-> IF k \in {"price_min", "price_max"} THEN float(a[k]) ELSE a[k]]

\* C17: the query of the GET on /items that list_items sends holds exactly
\* the supplied arguments under their own names with their own values,
\* price_min and price_max as the float of the supplied value
C17_QueryIsArguments ==
    \A p \in Procs :
        call[p].fn = "list_items" =>
            \A i \in 1..Len(obs[p].sent) :
                /\ obs[p].sent[i].to = "endpoint"
                /\ obs[p].sent[i].method = "get"
                /\ obs[p].sent[i].path = "/items"
                /\ obs[p].sent[i].data = ExpectedQuery(call[p].args)

\* the value is given (not None) and is not one of the allowed strings
GivenOutside(v, S) == v.t # "None" /\ NotInStrings(v, S)

\* one of the five enumerated arguments of list_items is given a value
\* outside its allowed set
EnumViolated(a) ==
    \/ GivenOutside(a.addtime, {"past-day", "past-2days", "past-5days", "past-week"})
    \/ GivenOutside(a.classification,
                    {"none", "new", "like-new", "good", "acceptable", "weak"})
    \/ a.limit.t # "None" /\ ~(NumEq(a.limit, 50) \/ NumEq(a.limit, 500))
    \/ GivenOutside(a.sellstyle, {"all", "auction", "buy-now"})
    \/ GivenOutside(a.sort,
                    {"hits", "newest", "closing", "lowprice", "highprice", "bidders", "title"})

\* C18: list_items raises ValueError and sends no request whenever addtime,
\* classification, limit, sellstyle or sort is given a value outside its
\* allowed set, whatever the other arguments are
C18_EnumRejected ==
    \A p \in Procs :
        (call[p].fn = "list_items" /\ EnumViolated(call[p].args))
            => (pc[p] = "done" /\ result[p] = "ValueError" /\ obs[p].sent = <<>>)

\* C19: create_item(status='draft') with every other argument at its default
\* passes the validations, enters post and sends the POST to /items
C19_DraftNeedsNothing ==
    \A p \in Procs :
        (call[p].fn = "create_item" /\ call[p].args = DraftOnly) =>
            /\ EnteredPost(p)
            /\ WentThrough(p) =>
                 /\ EndpointsSent(p) = 1
                 /\ obs[p].sent[Len(obs[p].sent)].path = "/items"

\* C20: a call sends at most one request to its endpoint and at most one
\* credential exchange, the exchange first and without a token header; the
\* token is checked at most once and the config file read at most six times;
\* and every call that has been entered comes to its end
C20_NoRetryTerminates ==
    /\ [](\A p \in Procs :
            /\ ExchangesSent(p) <= 1
            /\ EndpointsSent(p) <= 1
            /\ Len(obs[p].chk) <= 1
            /\ obs[p].reads <= 6
            /\ \A i \in 1..Len(obs[p].sent) :
                 obs[p].sent[i].to = "authentication" =>
                     i = 1 /\ obs[p].sent[i].token = <<>>)
    /\ \A p \in Single : (pc[p] # "idle") ~> (pc[p] = "done")

C20_Witness ==
    \E p \in Procs :
        /\ pc[p] = "done"
        /\ ExchangesSent(p) = 1
        /\ ExchangeFailed(p)
        /\ EndpointsSent(p) = 0
        /\ call[p].fn = "create_item"

\* ------------------------------------------- claims on the persisted state
\* the call in progress rewrote the config file
Rewrote(p) == obs[p].writes > 0

\* the call ended with an error of the endpoint after its own refresh
FailedAfterRefresh(p) ==
    /\ pc[p] = "done"
    /\ result[p] \in ApiErrorKinds
    /\ ExchangesSent(p) = 1 /\ ~ExchangeFailed(p)
    /\ EndpointsSent(p) = 1

\* C21 as stated: an authenticated call that ends with an error leaves the
\* persisted token record as it was before the call
C21_ErrorLeavesRecord ==
    \A p \in Procs :
        (pc[p] = "done" /\ call[p].auth /\ result[p] # "ok" /\ obs[p].sent # <<>>)
            => /\ ~Rewrote(p)
               /\ PersistedToken(file) = obs[p].sent[1].persisted

\* C21 amended: the file changes only in the two writing steps of
\* update_token, which a call reaches only after its credential exchange was
\* answered 200 or 201; a call whose exchange failed has not written; and a
\* call whose endpoint request fails after its refresh leaves the refreshed
\* record in the file, the one whose token the failed request carried
C21_RefreshOutlivesError ==
    /\ [](\A p \in Procs :
            /\ Rewrote(p) => (obs[p].xstat # <<>> /\ obs[p].xstat[1] \in {200, 201})
            /\ (pc[p] = "done" /\ ExchangeFailed(p)) => ~Rewrote(p)
            /\ FailedAfterRefresh(p) =>
                 /\ obs[p].writes = 2
                 /\ PersistedToken(file) = obs[p].sent[2].token
                 /\ file.token[1].token \in Tokens)
    /\ [][file' # file =>
            \E p \in Procs :
                /\ pc[p] \in {"u_open", "u_write"}
                /\ pc'[p] # pc[p]
                /\ obs[p].xstat[1] \in {200, 201}]_vars

C21_Witness ==
    \E p \in Procs :
        /\ FailedAfterRefresh(p)
        /\ result[p] = "ApiNotFoundError"
        /\ obs[p].sent[1].persisted = <<"t0">>
        /\ PersistedToken(file) = <<"tA">>

\* no call stands between the open and the write of update_token
NoWriteInProgress == \A p \in Procs : pc[p] # "u_write"

\* C22: every request that carries a token was sent after the token record
\* was read and checked in the same call, and carries the token the file
\* holds; the file is written only in update_token, entered straight from a
\* credential exchange answered 200 or 201 and before the endpoint request;
\* once written, the file holds the username and password it held before
\* and the token record of that exchange
C22_ReadBeforeWriteAfter ==
    /\ [](\A p \in Procs :
            /\ \A i \in 1..Len(obs[p].sent) :
                 obs[p].sent[i].token # <<>> =>
                     /\ Checked(p)
                     /\ obs[p].reads >= 5
                     /\ obs[p].sent[i].token = obs[p].sent[i].persisted
            /\ Rewrote(p) =>
                 /\ obs[p].xstat[1] \in {200, 201}
                 /\ ExchangesSent(p) = 1
                 /\ obs[p].writes <= 2
            /\ pc[p] \in {"u_read", "u_open", "u_write"} => EndpointsSent(p) = 0
            /\ NoWriteInProgress =>
                 (file.main = <<Credentials>> /\ HasSection(file, "token")))
    /\ [][/\ \A p \in Procs : (pc'[p] = "u_read" /\ pc[p] # "u_read") => pc[p] = "x_recv"
          /\ file' # file =>
               \E p \in Procs :
                   \/ pc[p] = "u_open" /\ pc'[p] = "u_write"
                   \/ /\ pc[p] = "u_write" /\ pc'[p] = "a_token"
                      /\ file'.main = <<Credentials>>
                      /\ LET b == loc[p].response[1].body IN
                         file'.token = << [userid |-> re_search(b.user)[1], token |-> b.id,
                                           start_time |-> b.startTime,
                                           expires |-> b.expires] >>]_vars

C22_Witness ==
    \E p \in Procs :
        /\ pc[p] = "a_token"
        /\ obs[p].writes = 2
        /\ file.main = <<Credentials>>
        /\ file.token[1].token = "tB"
        /\ call[p].method = "put"

\* ------------------------------------- claims on the deletes and edit_item
Deletes == {"delete_item", "delete_item_image"}

PositiveNumber(v) == v.t \in {"int", "float"} /\ v.n > 0

\* C24: with sale_method auction, a starting price and all other arguments
\* valid, create_item with any positive minimum_increase passes the
\* validations and sends minimumIncrease as the float of the supplied value
C24_IncreaseSetFreely ==
    \A p \in Procs :
        LET a == call[p].args IN
        (call[p].fn = "create_item" /\ a.sale_method = PyStr("auction")
            /\ create_item_validate([a EXCEPT !.minimum_increase = PyNone]) = Passed
            /\ PositiveNumber(a.minimum_increase)) =>
            /\ EnteredPost(p)
            /\ \A i \in 1..Len(obs[p].sent) :
                 obs[p].sent[i].to = "endpoint" =>
                     /\ "minimumIncrease" \in DOMAIN obs[p].sent[i].data
                     /\ obs[p].sent[i].data.minimumIncrease = float(a.minimum_increase)

\* the arguments edit_item sends under a name of its own
EditOnlyNames == {"minimum_feedback", "minimum_increase", "starting_price"}

\* C25: in the data edit_item puts, minimum_feedback, minimum_increase and
\* starting_price go out under these names, where create_item uses
\* minimumFeedback, minimumIncrease and startingPrice; every other supplied
\* argument goes out under the name create_item gives it; each with the
\* supplied value, and nothing else is sent
C25_EditWireNames ==
    /\ create_item_wire("minimum_feedback") = "minimumFeedback"
    /\ create_item_wire("minimum_increase") = "minimumIncrease"
    /\ create_item_wire("starting_price") = "startingPrice"
    /\ \A p \in Procs :
         call[p].fn = "edit_item" =>
           \A i \in 1..Len(obs[p].sent) :
             obs[p].sent[i].to = "endpoint" =>
               LET a == call[p].args
                   d == obs[p].sent[i].data
               IN /\ obs[p].sent[i].method = "put"
                  /\ Cardinality(DOMAIN d) = Cardinality(Supplied(a))
                  /\ \A k \in Supplied(a) :
                       IF k \in EditOnlyNames
                         THEN /\ k \in DOMAIN d /\ d[k] = a[k]
                              /\ create_item_wire(k) \notin DOMAIN d
                         ELSE /\ create_item_wire(k) \in DOMAIN d
                              /\ d[create_item_wire(k)] = a[k]

C25_Witness ==
    \E p \in Procs :
        /\ call[p].fn = "edit_item"
        /\ EndpointsSent(p) = 1
        /\ Supplied(call[p].args) = CreateItemParams
        /\ EditOnlyNames \subseteq DOMAIN obs[p].sent[Len(obs[p].sent)].data
        /\ "deliveryMethods " \in DOMAIN obs[p].sent[Len(obs[p].sent)].data

\* C26 as stated: every argument combination that create_item rejects is
\* rejected by edit_item too, before any network call
C26_EditRejectsAsCreate ==
    \A p \in Procs :
        (call[p].fn = "edit_item" /\ create_item_validate(call[p].args) # Passed)
            => FailedValidation(p)

\* C26 amended: edit_item validates nothing: whatever the arguments are, the
\* call enters put, and unless the credential exchange or the config file
\* fails it sends the PUT with every supplied argument as it was given
C26_EditValidatesNothing ==
    \A p \in Procs :
        call[p].fn = "edit_item" =>
            /\ EnteredPost(p)
            /\ pc[p] # "idle"
            /\ WentThrough(p) => EndpointsSent(p) = 1
            /\ \A i \in 1..Len(obs[p].sent) :
                 obs[p].sent[i].to = "endpoint" =>
                     /\ obs[p].sent[i].path = "/items/{}/"
                     /\ obs[p].sent[i].pathid = call[p].pathid
                     /\ obs[p].sent[i].data = edit_item_data(call[p].args)

C26_Witness ==
    \E p \in Procs :
        /\ call[p].fn = "edit_item"
        /\ call[p].args.condition = PyStr("broken")
        /\ create_item_validate(call[p].args) # Passed
        /\ pc[p] = "done" /\ result[p] = "ok"
        /\ EndpointsSent(p) = 1
        /\ obs[p].sent[Len(obs[p].sent)].data.condition = PyStr("broken")

\* ------------------------------------------------ claims on the user endpoints
\* C27: the user id in the path of a user endpoint's request is the user id
\* the file holds together with the token the request carries, also when the
\* call itself refreshed the token and the exchange persisted another user id
C27_PathUserIsTokenUser ==
    \A p \in Procs :
        call[p].fn \in UserEndpoints =>
            \A i \in 1..Len(obs[p].sent) :
                obs[p].sent[i].to = "endpoint" =>
                    /\ obs[p].sent[i].token = <<token(file)>>
                    /\ obs[p].sent[i].pathid = <<userid(file)>>

\* ------------------------------------------- claims on two racing processes
\* the token records one exchange response can put into the file
ExchangeRecords ==
    { TokenRecord(b.id, b.startTime, b.expires, re_search(b.user)[1]) :
        b \in { c \in UNION { AuthBodies(t) : t \in 0..MaxTime } :
                   c.kind = "auth" /\ re_search(c.user) # <<>> } }

BothDone == \A p \in Procs : pc[p] = "done"

\* the call of p ended on a section the file did not have: a KeyError that
\* is not the one of an exchange response without the expected keys
MissedSection(p) ==
    /\ pc[p] = "done" /\ result[p] = "KeyError"
    /\ loc[p].response = <<>>

\* C28: two processes share the config file and each calls authenticate while
\* the persisted token is expired; in every interleaving neither call ends on
\* a missing section of the file, and when both calls have ended and one of
\* them wrote, the file holds the username/password settings and a token
\* record whose four fields come from one exchange response
C28_RaceKeepsFile ==
    /\ \A p \in Procs : ~MissedSection(p)
    /\ (BothDone /\ \E p \in Procs : Rewrote(p)) =>
           /\ file.main = <<Credentials>>
           /\ HasSection(file, "token")
           /\ file.token[1] \in ExchangeRecords

====
